---- MODULE Spec2Model ----
(***************************************************************************)
(* Model of the SWC fantasy-football read-only API (FastAPI + SQLAlchemy). *)
(*                                                                         *)
(*   crud.py      query functions, modelled as operators over the store    *)
(*   main.py      the route handlers and the get_db dependency, modelled   *)
(*                as actions of a worker that serves one request at a time *)
(*   database.py  the session factory                                      *)
(*                                                                         *)
(* An optional argument is None (the empty tuple) or Some(v) (a 1-tuple).  *)
(* A table is the sequence of its rows in the order the store returns them.*)
(***************************************************************************)
EXTENDS Integers, Sequences, FiniteSets

VARIABLES players, performances, leagues, teams, pc, req, resp, sess, open

vars == <<players, performances, leagues, teams, pc, req, resp, sess, open>>

tables == <<players, performances, leagues, teams>>

(* ------------------------------ bounds -------------------------------- *)

\* most rows in the whole store (one more when only leagues and teams are stored)
MaxRows == 2

\* largest skip a request asks for
MaxSkip == 1

\* largest explicit limit a request asks for
MaxLimit == 1

\* worker threads serving requests at the same time
NumWorkers == 2

(* -------------------------- program constants ------------------------- *)

DefaultSkip == 0

DefaultLimit == 100

NotFound == 404

(* ------------------------------ values -------------------------------- *)

None == <<>>

Some(v) == <<v>>

Min(a, b) == IF a <= b THEN a ELSE b

Max(a, b) == IF a >= b THEN a ELSE b

\* names stored in rows, and days on which rows last changed
Names == {"a", "b"}

Dates == {1, 2}

\* `if x:` on an optional str: None and the empty string are falsy
TruthyStr(x) == x # None /\ x[1] # ""

\* `if x:` on an optional int: None and 0 are falsy
TruthyInt(x) == x # None /\ x[1] # 0

\* `if x:` on an optional date: only None is falsy
TruthyDate(x) == x # None

(* ------------------------------- store -------------------------------- *)

Player(id, f, l, d) ==
  [player_id |-> id, first_name |-> f, last_name |-> l, last_changed_date |-> d]

Performance(id, d) == [performance_id |-> id, last_changed_date |-> d]

League(id, n, d) == [league_id |-> id, league_name |-> n, last_changed_date |-> d]

Team(id, n, lg, d) ==
  [team_id |-> id, team_name |-> n, league_id |-> lg, last_changed_date |-> d]

\* tables of exactly n rows; a row's identifier is its rowid
PlayerTables(n) ==
  { [i \in 1..n |-> Player(i, a[i][1], a[i][2], a[i][3])] :
      a \in [1..n -> Names \X Names \X Dates] }

PerformanceTables(n) ==
  { [i \in 1..n |-> Performance(i, a[i])] : a \in [1..n -> Dates] }

LeagueTables(n) ==
  { [i \in 1..n |-> League(i, a[i][1], a[i][2])] : a \in [1..n -> Names \X Dates] }

\* every team belongs to one of the nl leagues
TeamTables(n, nl) ==
  { [i \in 1..n |-> Team(i, a[i][1], a[i][2], a[i][3])] :
      a \in [1..n -> Names \X (1..nl) \X Dates] }

db == [players |-> players, performances |-> performances,
       leagues |-> leagues, teams |-> teams]

(* --------------------------- crud.py ---------------------------------- *)

\* Query.filter is SelectSeq

\* Query.offset
Offset(q, n) == SubSeq(q, n + 1, Len(q))

\* Query.limit
Limit(q, n) == SubSeq(q, 1, Min(n, Len(q)))

\* Query.first
First(q) == IF q = <<>> THEN None ELSE Some(q[1])

\* the League.teams relationship
Teams(d, lg) == SelectSeq(d.teams, LAMBDA t : t.league_id = lg.league_id)

WithTeams(d, lg) ==
  [league_id |-> lg.league_id, league_name |-> lg.league_name,
   last_changed_date |-> lg.last_changed_date, teams |-> Teams(d, lg)]

\* get_player without its filter: the first player, whatever the identifier
get_player_NoFilter(d, player_id) == First(d.players)

get_player(d, player_id) ==
  First(SelectSeq(d.players, LAMBDA p : p.player_id = player_id))

get_players(d, skip, limit, min_last_changed_date, last_name, first_name) ==
  LET q0 == d.players
      q1 == IF TruthyDate(min_last_changed_date)
            THEN SelectSeq(q0, LAMBDA p : p.last_changed_date >= min_last_changed_date[1])
            ELSE q0
      q2 == IF TruthyStr(last_name)
            THEN SelectSeq(q1, LAMBDA p : p.last_name = last_name[1])
            ELSE q1
      q3 == IF TruthyStr(first_name)
            THEN SelectSeq(q2, LAMBDA p : p.first_name = first_name[1])
            ELSE q2
  IN  Limit(Offset(q3, skip), limit)

\* get_performances comparing with an absent date: NULL compares true with no row
get_performances_NullCompare(d, skip, limit, min_last_changed_date) ==
  LET q0 == d.performances
      q1 == IF TruthyDate(min_last_changed_date)
            THEN SelectSeq(q0, LAMBDA p : p.last_changed_date >= min_last_changed_date[1])
            ELSE SelectSeq(q0, LAMBDA p : FALSE)
  IN  Limit(Offset(q1, skip), limit)

get_performances(d, skip, limit, min_last_changed_date) ==
  LET q0 == d.performances
      q1 == IF TruthyDate(min_last_changed_date)
            THEN SelectSeq(q0, LAMBDA p : p.last_changed_date >= min_last_changed_date[1])
            ELSE q0
  IN  Limit(Offset(q1, skip), limit)

get_league(d, league_id) ==
  LET r == First(SelectSeq(d.leagues, LAMBDA l : l.league_id = league_id))
  IN  IF r = None THEN None ELSE Some(WithTeams(d, r[1]))

\* LEFT OUTER JOIN of the leagues q to their teams: one row per league and team,
\* and one row with no team for a league that owns none
RECURSIVE JoinTeams(_, _)
JoinTeams(d, q) ==
  IF q = <<>> THEN <<>>
  ELSE LET lg == Head(q)
           ts == Teams(d, lg)
       IN  (IF ts = <<>> THEN << <<lg, None>> >>
            ELSE [k \in 1..Len(ts) |-> <<lg, Some(ts[k])>>])
           \o JoinTeams(d, Tail(q))

\* the joined rows made into entities: one League per league identity, holding the
\* teams of its rows
Entities(rows) ==
  LET firsts == { i \in 1..Len(rows) :
                    \A j \in 1..(i - 1) : rows[j][1].league_id # rows[i][1].league_id }
      idx == SelectSeq([i \in 1..Len(rows) |-> i], LAMBDA i : i \in firsts)
      mine(lg) == SelectSeq(rows, LAMBDA x : x[1].league_id = lg.league_id /\ x[2] # None)
  IN  [k \in 1..Len(idx) |->
         LET lg == rows[idx[k]][1]
         IN  [league_id |-> lg.league_id, league_name |-> lg.league_name,
              last_changed_date |-> lg.last_changed_date,
              teams |-> [m \in 1..Len(mine(lg)) |-> mine(lg)[m][2][1]]]]

\* get_leagues with offset and limit applied to the joined rows
get_leagues_JoinWindow(d, skip, limit, min_last_changed_date, league_name) ==
  LET q0 == d.leagues
      q1 == IF TruthyDate(min_last_changed_date)
            THEN SelectSeq(q0, LAMBDA l : l.last_changed_date >= min_last_changed_date[1])
            ELSE q0
      q2 == IF TruthyStr(league_name)
            THEN SelectSeq(q1, LAMBDA l : l.league_name = league_name[1])
            ELSE q1
  IN  Entities(Limit(Offset(JoinTeams(d, q2), skip), limit))

\* joinedload with offset/limit: the leagues are filtered and windowed in a
\* subquery, and the teams are joined to the windowed leagues
get_leagues(d, skip, limit, min_last_changed_date, league_name) ==
  LET q0 == d.leagues
      q1 == IF TruthyDate(min_last_changed_date)
            THEN SelectSeq(q0, LAMBDA l : l.last_changed_date >= min_last_changed_date[1])
            ELSE q0
      q2 == IF TruthyStr(league_name)
            THEN SelectSeq(q1, LAMBDA l : l.league_name = league_name[1])
            ELSE q1
  IN  Entities(JoinTeams(d, Limit(Offset(q2, skip), limit)))

get_teams(d, skip, limit, min_last_changed_date, team_name, league_id) ==
  LET q0 == d.teams
      q1 == IF TruthyDate(min_last_changed_date)
            THEN SelectSeq(q0, LAMBDA t : t.last_changed_date >= min_last_changed_date[1])
            ELSE q0
      q2 == IF TruthyStr(team_name)
            THEN SelectSeq(q1, LAMBDA t : t.team_name = team_name[1])
            ELSE q1
      q3 == IF TruthyInt(league_id)
            THEN SelectSeq(q2, LAMBDA t : t.league_id = league_id[1])
            ELSE q2
  IN  Limit(Offset(q3, skip), limit)

get_player_count(d) == Len(d.players)

get_team_count(d) == Len(d.teams)

\* get_league_count querying the Team model
get_league_count_Teams(d) == Len(d.teams)

get_league_count(d) == Len(d.leagues)

(* --------------------------- requests --------------------------------- *)

Skips == 0..MaxSkip

\* a request without limit gets the default
Limits == (0..MaxLimit) \cup {DefaultLimit}

DateArgs == {None, Some(2)}

NameArgs == {None, Some(""), Some("a")}

LeagueIdArgs == {None, Some(0), Some(1)}

\* identifiers asked for; MaxRows + 1 is never stored
Ids == 1..(MaxRows + 1)

PlayersRequests ==
  [endpoint : {"read_players"}, skip : Skips, limit : Limits,
   min_last_changed_date : DateArgs, first_name : NameArgs, last_name : NameArgs]

PerformancesRequests ==
  [endpoint : {"read_performances"}, skip : Skips, limit : Limits,
   min_last_changed_date : DateArgs]

LeaguesRequests ==
  [endpoint : {"read_leagues"}, skip : Skips, limit : Limits,
   min_last_changed_date : DateArgs, league_name : NameArgs]

TeamsRequests ==
  [endpoint : {"read_teams"}, skip : Skips, limit : Limits,
   min_last_changed_date : DateArgs, team_name : NameArgs, league_id : LeagueIdArgs]

PlayerRequests == [endpoint : {"read_player"}, player_id : Ids]

LeagueRequests == [endpoint : {"read_league"}, league_id : Ids]

CountRequests == [endpoint : {"get_count"}]

\* every request to an endpoint that depends on get_db
Requests ==
  PlayersRequests \cup PerformancesRequests \cup LeaguesRequests \cup TeamsRequests
    \cup PlayerRequests \cup LeagueRequests \cup CountRequests

\* the requests that leave pagination and filters at their defaults
PlainRequests ==
  { q \in Requests :
      /\ q.endpoint \in {"read_players", "read_performances", "read_leagues", "read_teams"}
           => /\ q.skip = DefaultSkip
              /\ q.limit = DefaultLimit
              /\ q.min_last_changed_date = None
      /\ q.endpoint = "read_players" => q.first_name = None /\ q.last_name = None
      /\ q.endpoint = "read_leagues" => q.league_name = None
      /\ q.endpoint = "read_teams" => q.team_name = None /\ q.league_id = None
      /\ q.endpoint = "read_player" => q.player_id \in {1, 2}
      /\ q.endpoint = "read_league" => q.league_id \in {1, 2} }

NoRequest == [endpoint |-> "none"]

NoResponse == [status |-> 0]

Ok(body) == [status |-> 200, body |-> body]

HTTPException(status_code, detail) == [status |-> status_code, detail |-> detail]

\* an exception other than HTTPException leaves the handler
ServerError == [status |-> 500, detail |-> "Internal Server Error"]

(* --------------------------- main.py ---------------------------------- *)

\* SessionLocal(): a session no request holds
SessionLocal(o) == CHOOSE s \in 1..(Cardinality(o) + 1) : s \notin o

Respond(r, x) ==
  /\ resp' = [resp EXCEPT ![r] = x]
  /\ pc' = [pc EXCEPT ![r] = "responded"]
  /\ UNCHANGED <<tables, req, sess, open>>

\* GET / : no dependency on get_db
root(r) ==
  /\ pc[r] = "idle"
  /\ req' = [req EXCEPT ![r] = [endpoint |-> "root"]]
  /\ resp' = [resp EXCEPT ![r] = Ok("API health check successful!")]
  /\ pc' = [pc EXCEPT ![r] = "done"]
  /\ UNCHANGED <<tables, sess, open>>

\* get_db up to its yield: the request gets a session of its own
get_db(r, universe) ==
  /\ pc[r] = "idle"
  /\ \E q \in universe :
       req' = [req EXCEPT ![r] = q]
  /\ resp' = [resp EXCEPT ![r] = NoResponse]
  /\ sess' = [sess EXCEPT ![r] = Some(SessionLocal(open))]
  /\ open' = open \cup {SessionLocal(open)}
  /\ pc' = [pc EXCEPT ![r] = "open"]
  /\ UNCHANGED tables

Handling(r, endpoint) == pc[r] = "open" /\ req[r].endpoint = endpoint

read_players(r) ==
  /\ Handling(r, "read_players")
  /\ Respond(r, Ok(get_players(db, req[r].skip, req[r].limit,
                               req[r].min_last_changed_date,
                               req[r].last_name, req[r].first_name)))

\* read_player deleting the player it has read
read_player_Deleting(r) ==
  /\ Handling(r, "read_player")
  /\ LET player == get_player(db, req[r].player_id)
     IN  /\ resp' = [resp EXCEPT ![r] =
                       IF player = None
                       THEN HTTPException(NotFound, "Player not found")
                       ELSE Ok(player[1])]
         /\ players' = SelectSeq(players, LAMBDA p : p.player_id # req[r].player_id)
  /\ pc' = [pc EXCEPT ![r] = "responded"]
  /\ UNCHANGED <<performances, leagues, teams, req, sess, open>>

read_player(r) ==
  /\ Handling(r, "read_player")
  /\ LET player == get_player(db, req[r].player_id)
     IN  IF player = None
         THEN Respond(r, HTTPException(NotFound, "Player not found"))
         ELSE Respond(r, Ok(player[1]))

read_performances(r) ==
  /\ Handling(r, "read_performances")
  /\ Respond(r, Ok(get_performances(db, req[r].skip, req[r].limit,
                                    req[r].min_last_changed_date)))

read_league(r) ==
  /\ Handling(r, "read_league")
  /\ LET league == get_league(db, req[r].league_id)
     IN  IF league = None
         THEN Respond(r, HTTPException(NotFound, "League not found"))
         ELSE Respond(r, Ok(league[1]))

read_leagues(r) ==
  /\ Handling(r, "read_leagues")
  /\ Respond(r, Ok(get_leagues(db, req[r].skip, req[r].limit,
                               req[r].min_last_changed_date, req[r].league_name)))

read_teams(r) ==
  /\ Handling(r, "read_teams")
  /\ Respond(r, Ok(get_teams(db, req[r].skip, req[r].limit,
                             req[r].min_last_changed_date,
                             req[r].team_name, req[r].league_id)))

get_count(r) ==
  /\ Handling(r, "get_count")
  /\ Respond(r, Ok([league_count |-> get_league_count(db),
                    team_count |-> get_team_count(db),
                    player_count |-> get_player_count(db)]))

\* the store fails under a query: the exception leaves the handler
query_raises(r) ==
  /\ pc[r] = "open"
  /\ Respond(r, ServerError)

\* get_db closing its session after the yield without a finally: an exception
\* thrown into the generator skips the close
get_db_NoFinally(r) ==
  /\ pc[r] = "responded"
  /\ IF resp[r].status = 200
     THEN /\ open' = open \ {sess[r][1]}
          /\ sess' = [sess EXCEPT ![r] = None]
     ELSE UNCHANGED <<open, sess>>
  /\ pc' = [pc EXCEPT ![r] = "done"]
  /\ UNCHANGED <<tables, req, resp>>

\* get_db after its yield: the finally block closes the session on every exit
get_db_finally(r) ==
  /\ pc[r] = "responded"
  /\ open' = open \ {sess[r][1]}
  /\ sess' = [sess EXCEPT ![r] = None]
  /\ pc' = [pc EXCEPT ![r] = "done"]
  /\ UNCHANGED <<tables, req, resp>>

\* the response has been sent: the worker takes the next request
next_request(r) ==
  /\ pc[r] = "done"
  /\ req' = [req EXCEPT ![r] = NoRequest]
  /\ resp' = [resp EXCEPT ![r] = NoResponse]
  /\ pc' = [pc EXCEPT ![r] = "idle"]
  /\ UNCHANGED <<tables, sess, open>>

(* ------------------------- specifications ----------------------------- *)

\* the stores: at most MaxRows rows in all, or leagues and teams alone with one
\* row more, so that a league can own several teams
InitStore ==
  \E np \in 0..MaxRows :
    \E nf \in 0..(MaxRows - np) :
      \E nl \in 0..(MaxRows + 1) :
        \E nt \in 0..(IF nl = 0 THEN 0 ELSE MaxRows + 1 - nl) :
          /\ \/ np + nf + nl + nt <= MaxRows
             \/ np + nf = 0
          /\ players \in PlayerTables(np)
          /\ performances \in PerformanceTables(nf)
          /\ leagues \in LeagueTables(nl)
          /\ teams \in TeamTables(nt, nl)

InitWorkers(w) ==
  /\ pc = [r \in w |-> "idle"]
  /\ req = [r \in w |-> NoRequest]
  /\ resp = [r \in w |-> NoResponse]
  /\ sess = [r \in w |-> None]
  /\ open = {}

\* one worker, every store, every request
Worker == {1}

Init == InitStore /\ InitWorkers(Worker)

Next ==
  \E r \in Worker :
    \/ root(r)
    \/ get_db(r, Requests)
    \/ read_players(r)
    \/ read_player(r)
    \/ read_performances(r)
    \/ read_league(r)
    \/ read_leagues(r)
    \/ read_teams(r)
    \/ get_count(r)
    \/ query_raises(r)
    \/ get_db_finally(r)
    \/ next_request(r)

Spec == Init /\ [][Next]_vars

\* a store of one row per table
SampleStore ==
  /\ players = <<Player(1, "a", "b", 1)>>
  /\ performances = <<Performance(1, 1)>>
  /\ leagues = <<League(1, "a", 1)>>
  /\ teams = <<Team(1, "a", 1, 1)>>

\* NumWorkers workers serving plain requests at the same time
Workers == 1..NumWorkers

InitConc == SampleStore /\ InitWorkers(Workers)

NextConc ==
  \E r \in Workers :
    \/ root(r)
    \/ get_db(r, PlainRequests)
    \/ read_players(r)
    \/ read_player(r)
    \/ read_performances(r)
    \/ read_league(r)
    \/ read_leagues(r)
    \/ read_teams(r)
    \/ get_count(r)
    \/ query_raises(r)
    \/ get_db_finally(r)
    \/ next_request(r)

SpecConc == InitConc /\ [][NextConc]_vars

(* ------------------------- what the claims use ------------------------ *)

Listing == {"read_players", "read_performances", "read_leagues", "read_teams"}

\* the handler of request r has produced its response
Responded(r) == pc[r] \in {"responded", "done"}

\* ... and the response is a success
Answered(r) == Responded(r) /\ resp[r].status = 200

Supplied(x) == x # None

\* the table a listing request reads
TableOf(q) ==
  CASE q.endpoint = "read_players" -> players
    [] q.endpoint = "read_performances" -> performances
    [] q.endpoint = "read_leagues" -> leagues
    [] q.endpoint = "read_teams" -> teams

\* a returned item as the row of its table (a league without its teams)
Row(q, item) ==
  IF q.endpoint = "read_leagues"
  THEN League(item.league_id, item.league_name, item.last_changed_date)
  ELSE item

\* row satisfies every supplied filter of the listing request q
Matches(q, row) ==
  /\ Supplied(q.min_last_changed_date)
       => row.last_changed_date >= q.min_last_changed_date[1]
  /\ q.endpoint = "read_players" =>
       /\ Supplied(q.first_name) => row.first_name = q.first_name[1]
       /\ Supplied(q.last_name) => row.last_name = q.last_name[1]
  /\ q.endpoint = "read_leagues" =>
       (Supplied(q.league_name) => row.league_name = q.league_name[1])
  /\ q.endpoint = "read_teams" =>
       /\ Supplied(q.team_name) => row.team_name = q.team_name[1]
       /\ Supplied(q.league_id) => row.league_id = q.league_id[1]

Matching(q) == SelectSeq(TableOf(q), LAMBDA row : Matches(q, row))

\* row passes the filters of q that are present, each acting as a call without the
\* absent ones applies it: an empty name and a league_id of 0 exclude nothing
Passes(q, row) ==
  /\ Supplied(q.min_last_changed_date)
       => row.last_changed_date >= q.min_last_changed_date[1]
  /\ q.endpoint = "read_players" =>
       /\ Supplied(q.first_name)
            => q.first_name[1] = "" \/ row.first_name = q.first_name[1]
       /\ Supplied(q.last_name)
            => q.last_name[1] = "" \/ row.last_name = q.last_name[1]
  /\ q.endpoint = "read_leagues" =>
       (Supplied(q.league_name)
          => q.league_name[1] = "" \/ row.league_name = q.league_name[1])
  /\ q.endpoint = "read_teams" =>
       /\ Supplied(q.team_name)
            => q.team_name[1] = "" \/ row.team_name = q.team_name[1]
       /\ Supplied(q.league_id)
            => q.league_id[1] = 0 \/ row.league_id = q.league_id[1]

Passing(q) == SelectSeq(TableOf(q), LAMBDA row : Passes(q, row))

\* body is m without its first skip rows, cut to limit rows
IsWindow(q, body, m) ==
  /\ Len(body) = Min(q.limit, Max(0, Len(m) - q.skip))
  /\ \A i \in 1..Len(body) : Row(q, body[i]) = m[q.skip + i]

(* ------------------------------- C1 ----------------------------------- *)

\* C1: every listing returns at most limit rows, and exactly the rows matching the
\* filters, in store order, without the first skip of them and cut to limit rows.
C1_Pagination ==
  \A r \in DOMAIN pc :
    Answered(r) /\ req[r].endpoint \in Listing =>
      /\ Len(resp[r].body) <= req[r].limit
      /\ IsWindow(req[r], resp[r].body, Matching(req[r]))

(* ------------------------------- C2 ----------------------------------- *)

\* C2: with first_name and last_name both supplied, read_players returns only
\* players matching both, and all of them except for the skip/limit window.
C2_Conjunction ==
  \A r \in DOMAIN pc :
    /\ Answered(r)
    /\ req[r].endpoint = "read_players"
    /\ Supplied(req[r].first_name)
    /\ Supplied(req[r].last_name)
    => /\ \A i \in 1..Len(resp[r].body) :
            /\ resp[r].body[i].first_name = req[r].first_name[1]
            /\ resp[r].body[i].last_name = req[r].last_name[1]
       /\ IsWindow(req[r], resp[r].body, Matching(req[r]))

(* ------------------------------- C3 ----------------------------------- *)

\* every filter of the listing request q is absent
AllAbsent(q) ==
  /\ q.min_last_changed_date = None
  /\ q.endpoint = "read_players" => q.first_name = None /\ q.last_name = None
  /\ q.endpoint = "read_leagues" => q.league_name = None
  /\ q.endpoint = "read_teams" => q.team_name = None /\ q.league_id = None

\* C3: a filter that is absent (None) never excludes a row: a listing returns the
\* skip/limit window of the rows that pass the filters that are present, which
\* with every filter absent is the window of the whole table.
C3_AbsentFilter ==
  \A r \in DOMAIN pc :
    Answered(r) /\ req[r].endpoint \in Listing =>
      /\ IsWindow(req[r], resp[r].body, Passing(req[r]))
      /\ AllAbsent(req[r]) => IsWindow(req[r], resp[r].body, TableOf(req[r]))

\* a listing with every filter absent has returned a row of a table of several rows
C3_Witness ==
  \E r \in DOMAIN pc :
    /\ Answered(r)
    /\ req[r].endpoint \in Listing
    /\ AllAbsent(req[r])
    /\ Len(TableOf(req[r])) >= 2
    /\ req[r].skip = 1
    /\ Len(resp[r].body) = 1

(* ------------------------------- C4 ----------------------------------- *)

HasPlayer(id) == \E i \in 1..Len(players) : players[i].player_id = id

HasLeague(id) == \E i \in 1..Len(leagues) : leagues[i].league_id = id

\* C4: when the lookup query completes, read_player and read_league answer 404 with
\* their fixed detail exactly when no row has the identifier, and otherwise return
\* the stored record with that identifier.
C4_LookupNotFound ==
  \A r \in DOMAIN pc :
    Responded(r) /\ resp[r].status # 500 =>
      /\ req[r].endpoint = "read_player" =>
           /\ resp[r].status = 404 <=> ~HasPlayer(req[r].player_id)
           /\ resp[r].status = 404 => resp[r].detail = "Player not found"
           /\ HasPlayer(req[r].player_id) =>
                /\ resp[r].status = 200
                /\ resp[r].body.player_id = req[r].player_id
                /\ \E i \in 1..Len(players) : players[i] = resp[r].body
      /\ req[r].endpoint = "read_league" =>
           /\ resp[r].status = 404 <=> ~HasLeague(req[r].league_id)
           /\ resp[r].status = 404 => resp[r].detail = "League not found"
           /\ HasLeague(req[r].league_id) =>
                /\ resp[r].status = 200
                /\ resp[r].body.league_id = req[r].league_id
                /\ \E i \in 1..Len(leagues) :
                     leagues[i] = League(resp[r].body.league_id,
                                         resp[r].body.league_name,
                                         resp[r].body.last_changed_date)

\* a lookup of an identifier that is not the first row's has found its record
C4_Witness ==
  \E r \in DOMAIN pc :
    /\ Answered(r)
    /\ req[r].endpoint = "read_player"
    /\ req[r].player_id = 2
    /\ resp[r].body = players[2]

(* ------------------------------- C6 ----------------------------------- *)

\* C6: get_count returns the numbers of rows of the Player, Team and League tables
\* as player_count, team_count and league_count, each a natural number.
C6_Counts ==
  \A r \in DOMAIN pc :
    Answered(r) /\ req[r].endpoint = "get_count" =>
      /\ resp[r].body.player_count = Len(players)
      /\ resp[r].body.team_count = Len(teams)
      /\ resp[r].body.league_count = Len(leagues)
      /\ {resp[r].body.player_count, resp[r].body.team_count,
          resp[r].body.league_count} \subseteq Nat

\* counts returned for a store whose three tables differ in size
C6_Witness ==
  \E r \in DOMAIN pc :
    /\ Answered(r)
    /\ req[r].endpoint = "get_count"
    /\ Len(leagues) = 2
    /\ Len(teams) = 1
    /\ Len(players) = 0

(* ------------------------------- C7 ----------------------------------- *)

\* C7: a listing endpoint whose query completes answers with success, and with an
\* empty list when no row matches the supplied filters or skip reaches the number
\* of matching rows.
C7_EmptyNotError ==
  \A r \in DOMAIN pc :
    Responded(r) /\ req[r].endpoint \in Listing /\ resp[r].status # 500 =>
      /\ resp[r].status = 200
      /\ req[r].skip >= Len(Matching(req[r])) => resp[r].body = <<>>

(* ------------------------------- C8 ----------------------------------- *)

\* C8: no step of any request changes the Player, Performance, League or Team table.
C8_ReadOnly == [][tables' = tables]_vars

\* a lookup has ended in a 404 and its session is closed
C8_Witness ==
  \E r \in DOMAIN pc :
    /\ pc[r] = "done"
    /\ req[r].endpoint = "read_league"
    /\ resp[r].status = 404
    /\ leagues # <<>>

(* ------------------------------- C9 ----------------------------------- *)

TeamsOf(id) == {teams[k] : k \in {j \in 1..Len(teams) : teams[j].league_id = id}}

\* C9: every league read_leagues returns holds exactly the teams whose league_id is
\* its own, each once; a league is returned once, and skip and limit count leagues.
C9_LeagueTeams ==
  \A r \in DOMAIN pc :
    Answered(r) /\ req[r].endpoint = "read_leagues" =>
      LET body == resp[r].body
      IN  /\ \A i \in 1..Len(body) :
                /\ {body[i].teams[k] : k \in 1..Len(body[i].teams)}
                     = TeamsOf(body[i].league_id)
                /\ Len(body[i].teams) = Cardinality(TeamsOf(body[i].league_id))
          /\ \A i, j \in 1..Len(body) :
                body[i].league_id = body[j].league_id => i = j
          /\ Len(body) = Min(req[r].limit,
                             Max(0, Len(Passing(req[r])) - req[r].skip))

\* a league that owns two teams is returned under a limit of one
C9_Witness ==
  \E r \in DOMAIN pc :
    /\ Answered(r)
    /\ req[r].endpoint = "read_leagues"
    /\ req[r].limit = 1
    /\ Len(resp[r].body) = 1
    /\ Len(resp[r].body[1].teams) = 2

(* ------------------------------- C10 ---------------------------------- *)

\* C10: every filter that is supplied (not None) is applied, whatever its value:
\* each row a listing returns has the supplied names and the supplied league_id.
C10_SuppliedFilterApplied ==
  \A r \in DOMAIN pc :
    Answered(r) /\ req[r].endpoint \in Listing =>
      \A i \in 1..Len(resp[r].body) :
        LET q == req[r]
            row == resp[r].body[i]
        IN  /\ q.endpoint = "read_players" =>
                 /\ Supplied(q.first_name) => row.first_name = q.first_name[1]
                 /\ Supplied(q.last_name) => row.last_name = q.last_name[1]
            /\ q.endpoint = "read_leagues" =>
                 (Supplied(q.league_name) => row.league_name = q.league_name[1])
            /\ q.endpoint = "read_teams" =>
                 /\ Supplied(q.team_name) => row.team_name = q.team_name[1]
                 /\ Supplied(q.league_id) => row.league_id = q.league_id[1]

(* ------------------------------- C5 ----------------------------------- *)

Holders == {r \in DOMAIN pc : sess[r] # None}

\* C5: a request holds a session of its own from get_db until its handler has left,
\* by return, by the 404 or by an exception of the query; once the request has
\* ended its session is closed, no two requests hold the same session, and no
\* session is open that no request in progress holds.
C5_SessionScoped ==
  /\ \A r \in DOMAIN pc : pc[r] \in {"idle", "done"} => sess[r] = None
  /\ \A r \in DOMAIN pc :
       pc[r] \in {"open", "responded"} => sess[r] # None /\ sess[r][1] \in open
  /\ \A r1, r2 \in Holders : sess[r1] = sess[r2] => r1 = r2
  /\ open = {sess[r][1] : r \in Holders}

\* two requests that were served at the same time have ended, one in a 404 and one
\* in an exception of its query, and no session is open
C5_Witness ==
  \E r1, r2 \in DOMAIN pc :
    /\ pc[r1] = "done" /\ resp[r1].status = 404
    /\ pc[r2] = "done" /\ resp[r2].status = 500
    /\ open = {}

====
